---- MODULE Spec2Model ----
(***************************************************************************)
(* State-machine model of main.py: the MainWindow of the SEG-Y viewer, its *)
(* FolderWatcher threads with their watchdog observers, the queued         *)
(* new_file_signal deliveries and the GPS read.                            *)
(*                                                                         *)
(* GUI handlers run on the single GUI thread and are modelled as one       *)
(* action each, built from operators that follow the methods of the source *)
(* statement by statement.  FolderWatcher.run is split at the points where *)
(* the GUI thread can observe or change the state it shares with run():    *)
(* self._observer and the observer's liveness.                             *)
(*                                                                         *)
(* A handler runs to completion before the next one starts; a modal dialog  *)
(* is recorded in st.dialogs.  A button that was disabled with setEnabled   *)
(* delivers no click.  A FolderWatcher object lives on after self.watcher   *)
(* is rebound, as its thread does.  Folders are created, never removed.     *)
(*                                                                         *)
(* Paths are sequences of characters so that str.endswith and              *)
(* os.path.basename are computed, not assumed.  Floats are modelled by the *)
(* integers 0 (for 0.0) and non-zero degrees.                              *)
(***************************************************************************)
EXTENDS Integers, Sequences, FiniteSets, TLC

\* ------------------------------------------------------------------ bounds
\* FolderWatcher objects constructed during one run of the application.
MaxWatchers == 2
\* File-creation events in the watched folders during one run.
MaxCreates == 2
\* FolderWatcher objects constructed in the viewer specification.
ViewWatchers == 1
\* Queued new_file_signal emissions in the viewer specification.
MaxQueue == 1

\* ------------------------------------------------------------- environment
None == "None"
\* self.data: Python's None, or a numpy array given as its sequence of rows.
NoData == [isNone |-> TRUE, array |-> <<>>]
ndarray(rows) == [isNone |-> FALSE, array |-> rows]

\* os.path.join(os.getcwd(), "data"), the initial watch folder, and another folder.
DataDir == <<"d">>
OtherDir == <<"e">>
Dirs == {DataDir, OtherDir}

SgyName == <<"a", ".", "s", "g", "y">>
TxtName == <<"b", ".", "t", "x", "t">>
Names == {SgyName, TxtName}

Join(dir, name) == dir \o <<"/">> \o name
Paths == {Join(d, n) : d \in Dirs, n \in Names}

\* What segyio finds in a readable file: a trace count and the traces.
Disk(path) ==
    LET k == IF path[1] = "d" THEN 10 ELSE 20
        j == IF path[3] = "a" THEN 1 ELSE 5
    IN [tracecount |-> 2,
        trace |-> <<  <<k + j, k + j + 1, k + j + 2>>, <<k + j + 3, 0, k>>  >>]

\* str.endswith
endswith(s, suffix) ==
    /\ Len(s) >= Len(suffix)
    /\ SubSeq(s, Len(s) - Len(suffix) + 1, Len(s)) = suffix

\* os.path.basename: what follows the last "/".
RECURSIVE basename(_)
basename(p) ==
    IF \E i \in 1..Len(p) : p[i] = "/"
    THEN basename(Tail(p))
    ELSE p

\* numpy's .T of a two-dimensional array given as a sequence of rows.
Transpose(m) ==
    IF Len(m) = 0 THEN <<>>
    ELSE [c \in 1..Len(m[1]) |-> [r \in 1..Len(m) |-> m[r][c]]]

\* Outcomes of the serial port and the GNSS stream during one GPS read of
\* process_new_file: one for each way to the fallback, and every pair of coordinates.
LatLon == {0, 45}
GpsOutcomes ==
    {[serial |-> "raise", read |-> "ok", attrs |-> {}, lat |-> 0, lon |-> 0, close |-> "ok"],
     [serial |-> "ok", read |-> "raise", attrs |-> {}, lat |-> 0, lon |-> 0, close |-> "ok"],
     [serial |-> "ok", read |-> "ok", attrs |-> {"lat"}, lat |-> 45, lon |-> 0, close |-> "ok"],
     [serial |-> "ok", read |-> "ok", attrs |-> {"lat", "lon"}, lat |-> 45, lon |-> 45, close |-> "raise"]}
    \cup {[serial |-> "ok", read |-> "ok", attrs |-> {"lat", "lon"}, lat |-> a, lon |-> b, close |-> "ok"] :
             a \in LatLon, b \in LatLon}

\* Every combination of what the port, the stream and the coordinates object can do.
AllGpsOutcomes ==
    [serial : {"ok", "raise"}, read : {"ok", "raise"}, close : {"ok", "raise"},
     attrs : SUBSET {"lat", "lon"}, lat : LatLon \cup {-30}, lon : LatLon \cup {-30}]

\* ------------------------------------------------------------------- state
VARIABLES
    st,        \* the MainWindow, its widgets and the FolderWatcher objects
    existing,  \* the folders that exist on disk
    created,   \* the file-creation events so far, in order (paths)
    queue,     \* new_file_signal emissions queued for the GUI thread, each
               \* tagged with the creation event it stems from (0: not tracked)
    emitted,   \* history: emissions per creation event
    processed, \* history: process_new_file calls per creation event
    last       \* history: the handler that ran last, if it loads a file or reads
               \* the GPS, with the inputs it met

vars == <<st, existing, created, queue, emitted, processed, last>>

Watchers == 1..MaxWatchers
Events == 1..MaxCreates

\* ------------------------------------------------------ SGYStartHandler
\* The calls of self.callback made by on_created for one event.
on_created(src_path) ==
    IF endswith(src_path, <<".", "s", "g", "y">>) THEN <<src_path>> ELSE <<>>

\* -------------------------------------------------------- FolderWatcher
\* A FolderWatcher that was never constructed.
NoWatcher ==
    [folder |-> <<>>, observer |-> None, pc |-> "unborn", events |-> <<>>]

\* FolderWatcher(folder) followed by QThread.start(): run() is about to begin.
FolderWatcher(folder) ==
    [folder |-> folder, observer |-> None, pc |-> "run", events |-> <<>>]

\* run(), lines 39-40: the observer object exists but is not started.
run_create(w) == [w EXCEPT !.observer = "new", !.pc = "schedule"]

\* run(), lines 41-43: schedule and start the observer.
run_start(w) == [w EXCEPT !.observer = "alive", !.pc = "loop"]

\* run(), lines 45-46: one test of the polling loop.
run_poll(w) == IF w.observer = "alive" THEN w ELSE [w EXCEPT !.pc = "finally"]

\* run(), lines 47-49: stop and join the observer; the thread ends.
run_finally(w) == [w EXCEPT !.observer = "stopped", !.events = <<>>, !.pc = "done"]

\* stop(): acts only on an observer that exists and is alive.
stop(w) ==
    IF w.observer # None /\ w.observer = "alive"
    THEN [w EXCEPT !.observer = "stopped", !.events = <<>>]
    ELSE w

\* file_created: one emission of new_file_signal.
file_created(filepath) == <<filepath>>

\* ------------------------------------------------------------ functions
get_data_from_file(file_path, readable) ==
    IF readable
    THEN [raised |-> FALSE,
          value |-> ndarray([i \in 1..Disk(file_path).tracecount |->
                                Disk(file_path).trace[i]])]
    ELSE [raised |-> TRUE, value |-> NoData]

\* get_current_location that trusts the coordinates object without hasattr.
get_current_location_no_hasattr(o) ==
    IF o.serial = "raise" THEN <<0, 0>>
    ELSE IF o.read = "raise" THEN <<0, 0>>
    ELSE IF o.close = "raise" THEN <<0, 0>> ELSE <<o.lat, o.lon>>

get_current_location(o) ==
    IF o.serial = "raise" THEN <<0, 0>>
    ELSE IF o.read = "raise" THEN <<0, 0>>
    ELSE IF "lat" \in o.attrs /\ "lon" \in o.attrs
         THEN IF o.close = "raise" THEN <<0, 0>> ELSE <<o.lat, o.lon>>
         ELSE <<0, 0>>

\* ------------------------------------------------------------ MainWindow
Shown(s, title) == [s EXCEPT !.dialogs = Append(@, title)]
Step(s, what) == [s EXCEPT !.steps = Append(@, what)]

LoadedMsg(file_path) == [kind |-> "Loaded", text |-> file_path, lat |-> 0, lon |-> 0]
LocationMsg(file_path, lat, lon) ==
    [kind |-> "File", text |-> basename(file_path), lat |-> lat, lon |-> lon]
NoMsg == [kind |-> "", text |-> <<>>, lat |-> 0, lon |-> 0]

EmptyFigure == [image |-> <<>>, title |-> ""]
FolderControls(b) == [folder_path |-> b, folder_browse_button |-> b, folder_label |-> b]

\* MainWindow.__init__
MainWindow ==
    [data |-> NoData,
     watch_folder |-> DataDir,
     figure |-> EmptyFigure,
     file_path |-> <<>>,
     folder_path |-> DataDir,
     checked |-> FALSE,
     enabled |-> FolderControls(TRUE),
     status |-> NoMsg,
     watcher |-> 0,
     fw |-> [i \in Watchers |-> NoWatcher],
     dialogs |-> <<>>,
     steps |-> <<>>,
     raised |-> FALSE]

plot(s) ==
    IF s.data.isNone
    THEN Step(Shown(s, "No Data"), "plot")
    ELSE Step([s EXCEPT !.figure = [image |-> Transpose(s.data.array), title |-> "Seismic Section"]],
              "plot")

\* load_segy_file whose except branch forgets self.data = None.
load_segy_file_stale(s, file_path, readable) ==
    LET r == get_data_from_file(file_path, readable)
    IN IF ~r.raised
       THEN Step([s EXCEPT !.data = r.value, !.status = LoadedMsg(file_path)], "load")
       ELSE Step(Shown(s, "Error Loading File"), "load")

\* load_segy_file without its try/except: the exception leaves the handler.
load_segy_file_uncaught(s, file_path, readable) ==
    LET r == get_data_from_file(file_path, readable)
    IN IF ~r.raised
       THEN Step([s EXCEPT !.data = r.value, !.status = LoadedMsg(file_path)], "load")
       ELSE Step([s EXCEPT !.raised = TRUE], "load")

load_segy_file(s, file_path, readable) ==
    LET r == get_data_from_file(file_path, readable)
    IN IF ~r.raised
       THEN Step([s EXCEPT !.data = r.value, !.status = LoadedMsg(file_path)], "load")
       ELSE Step([Shown(s, "Error Loading File") EXCEPT !.data = NoData], "load")

\* process_new_file that plots before it loads.
process_new_file_plot_first(s, file_path, readable, o) ==
    LET s1 == Step([s EXCEPT !.file_path = file_path], "setText")
        s2 == plot(s1)
        s3 == load_segy_file(s2, file_path, readable)
        loc == get_current_location(o)
        s4 == Step(s3, "gps")
    IN IF loc[1] # 0 /\ loc[2] # 0
       THEN [s4 EXCEPT !.status = LocationMsg(file_path, loc[1], loc[2])]
       ELSE s4

process_new_file(s, file_path, readable, o) ==
    LET s1 == Step([s EXCEPT !.file_path = file_path], "setText")
        s2 == load_segy_file(s1, file_path, readable)
        s3 == plot(s2)
        loc == get_current_location(o)
        s4 == Step(s3, "gps")
    IN IF loc[1] # 0 /\ loc[2] # 0
       THEN [s4 EXCEPT !.status = LocationMsg(file_path, loc[1], loc[2])]
       ELSE s4

browse_segy_file(s, file_path, readable) ==
    IF file_path # <<>>
    THEN load_segy_file(Step([s EXCEPT !.file_path = file_path], "setText"),
                        file_path, readable)
    ELSE s

stop_watching(s) ==
    IF s.watcher # 0 THEN [s EXCEPT !.fw[s.watcher] = stop(@)] ELSE s

\* The index the next FolderWatcher object gets.
NextWatcher(s) == Cardinality({i \in Watchers : s.fw[i].pc # "unborn"}) + 1

RECURSIVE toggle_watching(_, _, _)

\* QCheckBox.setChecked: a change of state emits stateChanged, which is
\* connected (directly, same thread) to toggle_watching.
setChecked(s, b, ex) ==
    IF s.checked = b
    THEN s
    ELSE toggle_watching([s EXCEPT !.checked = b], IF b THEN 2 ELSE 0, ex)

start_watching(s, ex) ==
    IF s.watch_folder \notin ex
    THEN setChecked(Shown(s, "Invalid Folder"), FALSE, ex)
    ELSE [s EXCEPT !.fw[NextWatcher(s)] = FolderWatcher(s.watch_folder),
                   !.watcher = NextWatcher(s)]

toggle_watching(s, state, ex) ==
    IF state = 2
    THEN [start_watching(s, ex) EXCEPT !.enabled = FolderControls(FALSE)]
    ELSE [stop_watching(s) EXCEPT !.enabled = FolderControls(TRUE)]

browse_watch_folder(s, folder_path, ex) ==
    IF folder_path # <<>>
    THEN LET s1 == [s EXCEPT !.watch_folder = folder_path, !.folder_path = folder_path]
         IN IF s1.checked THEN start_watching(stop_watching(s1), ex) ELSE s1
    ELSE s

\* ----------------------------------------------------------------- actions
\* A handler starts with no dialog shown and no step taken.
Fresh(s) == [s EXCEPT !.dialogs = <<>>, !.steps = <<>>]

NoOutcome ==
    [serial |-> "", read |-> "", attrs |-> {}, lat |-> 0, lon |-> 0, close |-> ""]

Idle(op) == [op |-> op, readable |-> FALSE, o |-> NoOutcome, fix |-> <<0, 0>>]

Init ==
    /\ st = MainWindow
    /\ existing \in {{OtherDir}, Dirs}
    /\ created = <<>>
    /\ queue = <<>>
    /\ emitted = [e \in Events |-> 0]
    /\ processed = [e \in Events |-> 0]
    /\ last = Idle("other")

\* The user clicks the 'Watch for new files' checkbox; at most maxW
\* FolderWatcher objects are constructed in all.
ClickWatch(maxW) ==
    /\ (~st.checked /\ st.watch_folder \in existing) => NextWatcher(st) <= maxW
    /\ st' = setChecked(Fresh(st), ~st.checked, existing)
    /\ last' = Idle("other")
    /\ UNCHANGED <<existing, created, queue, emitted, processed>>

\* The user clicks 'Select Folder...' (an enabled button) and picks a folder or cancels.
ClickSelectFolder(maxW) ==
    /\ st.enabled.folder_browse_button
    /\ \E folder_path \in existing \cup {<<>>} :
          /\ (folder_path # <<>> /\ st.checked) => NextWatcher(st) <= maxW
          /\ st' = browse_watch_folder(Fresh(st), folder_path, existing)
    /\ last' = Idle("other")
    /\ UNCHANGED <<existing, created, queue, emitted, processed>>

\* The user clicks 'Browse...' and picks a file or cancels.
ClickBrowse ==
    \E file_path \in Paths \cup {<<>>}, readable \in BOOLEAN :
        /\ st' = browse_segy_file(Fresh(st), file_path, readable)
        /\ last' = [Idle(IF file_path = <<>> THEN "other" ELSE "browse_segy_file")
                      EXCEPT !.readable = readable /\ file_path # <<>>]
        /\ UNCHANGED <<existing, created, queue, emitted, processed>>

\* The user clicks 'Plot'.
ClickPlot ==
    /\ st' = plot(Fresh(st))
    /\ last' = Idle("other")
    /\ UNCHANGED <<existing, created, queue, emitted, processed>>

\* The GUI thread delivers the oldest queued new_file_signal to process_new_file.
Deliver ==
    /\ queue # <<>>
    /\ \E readable \in BOOLEAN, o \in GpsOutcomes :
          /\ st' = process_new_file(Fresh(st), Head(queue).path, readable, o)
          /\ last' = [Idle("process_new_file") EXCEPT
                        !.readable = readable,
                        !.fix = get_current_location(o)]
    /\ processed' = IF Head(queue).event \in Events
                    THEN [processed EXCEPT ![Head(queue).event] = @ + 1]
                    ELSE processed
    /\ queue' = Tail(queue)
    /\ UNCHANGED <<existing, created, emitted>>

\* Steps of the thread of FolderWatcher i.
RunCreate(i) ==
    /\ st.fw[i].pc = "run"
    /\ st' = [st EXCEPT !.fw[i] = run_create(@)]
    /\ UNCHANGED <<existing, created, queue, emitted, processed, last>>

RunStart(i) ==
    /\ st.fw[i].pc = "schedule"
    /\ st' = [st EXCEPT !.fw[i] = run_start(@)]
    /\ UNCHANGED <<existing, created, queue, emitted, processed, last>>

\* The polling loop leaves once the observer is no longer alive; while it is
\* alive a test of the loop changes nothing.
RunPoll(i) ==
    /\ st.fw[i].pc = "loop"
    /\ st' = [st EXCEPT !.fw[i] = run_poll(@)]
    /\ UNCHANGED <<existing, created, queue, emitted, processed, last>>

RunFinally(i) ==
    /\ st.fw[i].pc = "finally"
    /\ st' = [st EXCEPT !.fw[i] = run_finally(@)]
    /\ UNCHANGED <<existing, created, queue, emitted, processed, last>>

\* The emissions that one creation event at src_path causes, tagged with event e.
Emissions(src_path, e) ==
    LET calls == on_created(src_path)
        sent == IF calls = <<>> THEN <<>> ELSE file_created(calls[1])
    IN [k \in 1..Len(sent) |-> [path |-> sent[k], event |-> e]]

\* A file is created in a folder: every live observer scheduled on it gets the event.
CreateFile ==
    /\ Len(created) < MaxCreates
    /\ \E d \in existing, n \in Names :
          /\ created' = Append(created, Join(d, n))
          /\ st' = [st EXCEPT !.fw = [i \in Watchers |->
                       IF st.fw[i].observer = "alive" /\ st.fw[i].folder = d
                       THEN [st.fw[i] EXCEPT !.events = Append(@, Len(created) + 1)]
                       ELSE st.fw[i]]]
    /\ UNCHANGED <<existing, queue, emitted, processed, last>>

\* The observer of FolderWatcher i dispatches its oldest event to on_created.
Dispatch(i) ==
    /\ st.fw[i].observer = "alive"
    /\ st.fw[i].events # <<>>
    /\ LET e == Head(st.fw[i].events)
       IN /\ queue' = queue \o Emissions(created[e], e)
          /\ emitted' = [emitted EXCEPT ![e] = @ + Len(Emissions(created[e], e))]
    /\ st' = [st EXCEPT !.fw[i].events = Tail(@)]
    /\ UNCHANGED <<existing, created, processed, last>>

\* A file is created in the folder of the live observer of FolderWatcher i and
\* dispatched to on_created at once; the event is not recorded in the history.
Observe(i) ==
    /\ st.fw[i].observer = "alive"
    /\ Len(queue) < MaxQueue
    /\ \E n \in Names : queue' = queue \o Emissions(Join(st.fw[i].folder, n), 0)
    /\ UNCHANGED <<st, existing, created, emitted, processed, last>>

\* One GPS read on its own, for every outcome of the port and the stream.
ReadGps ==
    /\ \E o \in AllGpsOutcomes :
          last' = [Idle("get_current_location") EXCEPT
                     !.o = o, !.fix = get_current_location(o)]
    /\ UNCHANGED <<st, existing, created, queue, emitted, processed>>

\* The default data folder is created.
MkDir ==
    /\ DataDir \notin existing
    /\ existing' = existing \cup {DataDir}
    /\ UNCHANGED <<st, created, queue, emitted, processed, last>>

\* ---------------------------------------------------------- specifications
\* The viewer: loading, plotting and processing files, fed by live watchers.
Next ==
    \/ ClickBrowse
    \/ ClickPlot
    \/ Deliver
    \/ ClickWatch(ViewWatchers)
    \/ ClickSelectFolder(ViewWatchers)
    \/ MkDir
    \/ \E i \in Watchers : RunCreate(i)
    \/ \E i \in Watchers : RunStart(i)
    \/ \E i \in Watchers : RunPoll(i)
    \/ \E i \in Watchers : RunFinally(i)
    \/ \E i \in Watchers : Observe(i)

Spec == Init /\ [][Next]_vars

\* The watchers: the checkbox, the folder selection, the FolderWatcher threads,
\* their observers' events and the delivery of the signals.
WatchNext ==
    \/ ClickWatch(MaxWatchers)
    \/ ClickSelectFolder(MaxWatchers)
    \/ MkDir
    \/ \E i \in Watchers : RunCreate(i)
    \/ \E i \in Watchers : RunStart(i)
    \/ \E i \in Watchers : RunPoll(i)
    \/ \E i \in Watchers : RunFinally(i)
    \/ CreateFile
    \/ \E i \in Watchers : Dispatch(i)
    \/ Deliver

WatchSpec == Init /\ [][WatchNext]_vars

\* The threads alone, each scheduled fairly.
ThreadNext ==
    \/ ClickWatch(MaxWatchers)
    \/ ClickSelectFolder(MaxWatchers)
    \/ MkDir
    \/ \E i \in Watchers : RunCreate(i)
    \/ \E i \in Watchers : RunStart(i)
    \/ \E i \in Watchers : RunPoll(i)
    \/ \E i \in Watchers : RunFinally(i)

\* The GPS read alone.
GpsNext == ReadGps

GpsSpec == Init /\ [][GpsNext]_vars

FairSpec ==
    /\ Init
    /\ [][ThreadNext]_vars
    /\ \A i \in Watchers :
          /\ WF_vars(RunCreate(i))
          /\ WF_vars(RunStart(i))
          /\ WF_vars(RunPoll(i))
          /\ WF_vars(RunFinally(i))

\* ------------------------------------------------------------------ claims
Count(seq, x) == Cardinality({k \in 1..Len(seq) : seq[k] = x})
LoadedLast == last.op \in {"browse_segy_file", "process_new_file"}

\* C1: self.data is None or exactly the trace matrix of the file whose path
\* the file_path field shows; it never holds traces of an earlier file.
C1_DataOfShownFile ==
    \/ st.data.isNone
    \/ /\ st.file_path \in Paths
       /\ st.data.array = Disk(st.file_path).trace

\* A second file was loaded after the first one had been loaded and plotted.
C1_Witness ==
    /\ LoadedLast
    /\ ~st.data.isNone
    /\ st.figure.image # <<>>
    /\ st.figure.image # Transpose(st.data.array)

\* C2: a load that fails shows exactly one 'Error Loading File' dialog, lets no
\* exception out and leaves self.data None.
C2_LoadFailureCaught ==
    (LoadedLast /\ ~last.readable) =>
        /\ Count(st.dialogs, "Error Loading File") = 1
        /\ ~st.raised
        /\ st.data.isNone

\* A load failed while the status bar still reported an earlier successful load.
C2_Witness ==
    /\ LoadedLast
    /\ ~last.readable
    /\ st.status.kind = "Loaded"
    /\ st.data.isNone

\* C3: get_current_location returns a pair in every case, the fallback (0, 0)
\* when the port or the read raises or an attribute is missing, and the
\* receiver's coordinates only when both attributes are present.
C3_LocationOrFallback ==
    last.op = "get_current_location" =>
        /\ last.fix \in Int \X Int
        /\ (\/ last.o.serial = "raise"
            \/ last.o.read = "raise"
            \/ "lat" \notin last.o.attrs
            \/ "lon" \notin last.o.attrs) => last.fix = <<0, 0>>
        /\ last.fix # <<0, 0>> =>
              /\ last.o.attrs = {"lat", "lon"}
              /\ last.fix = <<last.o.lat, last.o.lon>>

\* The coordinates object carried a latitude but no longitude.
C3_Witness ==
    /\ last.op = "get_current_location"
    /\ last.o.serial = "ok" /\ last.o.read = "ok" /\ last.o.close = "ok"
    /\ last.o.attrs = {"lat"}
    /\ last.o.lat = 45
    /\ last.fix = <<0, 0>>

\* C4: at most one FolderWatcher has a live observer.
C4_AtMostOneWatcher ==
    Cardinality({i \in Watchers : st.fw[i].observer = "alive"}) <= 1

\* C5: a created file is signalled exactly once: no creation event has more
\* than one emission or more than one process_new_file call, and none at all
\* unless its path ends in ".sgy".
C5_SignalledOnce ==
    \A e \in 1..Len(created) :
        /\ emitted[e] <= 1
        /\ processed[e] <= 1
        /\ ~endswith(created[e], <<".", "s", "g", "y">>) =>
              emitted[e] = 0 /\ processed[e] = 0

\* C6: after process_new_file the status bar shows the file's base name and
\* the location for every fix other than (0, 0), and no location otherwise.
C6_TaggedWithFix ==
    last.op = "process_new_file" =>
        IF last.fix # <<0, 0>>
        THEN st.status = [kind |-> "File", text |-> SgyName,
                          lat |-> last.fix[1], lon |-> last.fix[2]]
        ELSE st.status.kind # "File"

\* C7: process_new_file shows the path, loads, plots and reads the GPS, in this
\* order; the figure becomes the file's traces when the load succeeds and is
\* left as it was, with a 'No Data' warning, when the load fails.
C7_ProcessOrder ==
    [][(Len(queue') < Len(queue)) =>
         /\ st'.steps = <<"setText", "load", "plot", "gps">>
         /\ st'.file_path = Head(queue).path
         /\ last'.readable =>
               st'.figure.image = Transpose(Disk(Head(queue).path).trace)
         /\ ~last'.readable =>
               /\ st'.figure = st.figure
               /\ Count(st'.dialogs, "No Data") = 1]_vars

\* A processed file failed to load while the figure showed an earlier file.
C7_Witness ==
    /\ last.op = "process_new_file"
    /\ ~last.readable
    /\ st.steps = <<"setText", "load", "plot", "gps">>
    /\ st.figure.image # <<>>

\* C8: the watch-folder controls are enabled exactly when the checkbox is unchecked.
C8_ControlsFollowCheckbox == st.enabled = FolderControls(~st.checked)

\* C9: no queued signal is delivered to process_new_file while the checkbox is
\* unchecked, that is after stop_watching has returned.
C9_NoProcessAfterStop == [][(Len(queue') < Len(queue)) => st.checked]_vars

\* C10: a FolderWatcher thread on which stop() was called terminates.  While
\* the checkbox is unchecked, stop_watching has called stop() on self.watcher.
C10_StoppedTerminates ==
    \A i \in Watchers : (~st.checked /\ st.watcher = i) ~> (st.fw[i].pc = "done")

====
